---- MODULE Spec2Model ----
(***************************************************************************)
(* A model of thread_extra.py: ThreadManager (a context manager that       *)
(* creates threads and joins them in __exit__) and ThreadSet (bulk start   *)
(* and join over a set of threads).                                        *)
(*                                                                         *)
(* Spec     : one ThreadManager scope, its body, its workers and __exit__. *)
(* FairSpec : Spec for a finite join_timeout, with the fairness of the     *)
(*            thread running __exit__.                                     *)
(* SetSpec  : bulk operations of one ThreadSet while its members run.      *)
(* CreateSetSpec : the scope of test_ft_list.py, which calls create_set.   *)
(* ReuseSpec : one manager used for several with-statements.               *)
(* UnionSpec : the operators | and |= and the queries of ThreadSet.        *)
(* OwnerSpec : ThreadSets built and combined inside a manager's scope.     *)
(* ProtoSpec : the reader/writer protocol of test_multithreaded_radix.py.  *)
(***************************************************************************)
EXTENDS Integers, Sequences, FiniteSets, TLC

\* ------------------------------------------------------------------ bounds
\* Number of Thread objects that can be created in one run.
MaxThreads == 3

Handles == 1..MaxThreads

\* Length of the iterables a ThreadSet is constructed from.
MaxIterable == 2

\* The caller id of the thread that runs the with-statement; workers are
\* identified by their handle.
Main == 0

Callers == {Main} \cup Handles

\* The ThreadSet objects of the program: a, b and u = a | b. The bulk
\* operations are called on u (on a alone when b is empty).
SetNames == {"A", "B", "U"}

\* join_timeout=None (thread_extra.py:76): wait without limit.
NoTimeout == "None"

\* Any finite join timeout, a float of seconds.
FiniteTimeout == "finite"

\* No join call of __exit__ is in progress.
NoCall == "-"

\* ------------------------------------------------------------- work items
\* The targets handed to the factory (thread_extra.py:86, target=target):
\*   "incr"  adds one to a shared counter under the caller's lock, returns
\*   "free"  any other target: it may use the manager to create handles, start
\*           handles, and then return or raise
\* No target is obliged to make progress: a target that never returns is a
\* target that takes no further step.
Work == {"incr", "free"}

VARIABLES
    state,         \* [Handles -> "absent" | "new" | "running" | "finished"]
    work,          \* [Handles -> Work \cup {"none"}], the target of each Thread
    wpc,           \* [Handles -> "begin" | "ret"], position inside the target
    faulted,       \* handles whose target raised
    counter,       \* the shared counter of the "incr" targets
    join_timeout,  \* ThreadManager._join_timeout
    registry,      \* ThreadManager._threads, a list
    usage,         \* "as_clause": with ThreadManager() as tm / "assigned": tm = ThreadManager(); with tm
    tm,            \* what the name tm is bound to in the body: "manager" | "None" | "unbound"
    pcMain,        \* "new" | "body" | "exit" | "exited"
    excInfo,       \* the exception the body left with, handed to __exit__(*args)
    propagated,    \* the exception that leaves the with-statement
    fpc,           \* [Callers -> "idle" | "call" | "create_thread"], a factory call between its two statements
    fthread,       \* [Callers -> handle or 0], the local variable thread of that call
    held,          \* handles returned by a factory call
    startedAtExit, \* the handles that were started when the body was left
    idx,           \* position of the list iterator of __exit__
    pcExit,        \* "iter" | "join"
    cur,           \* the loop variable thread of __exit__
    joinArg,       \* the timeout argument of the join call __exit__ is in
    sets,          \* [SetNames -> set of handles], ThreadSet._threads of three ThreadSet objects
    opName,        \* the ThreadSet method the main thread is in: "none" | "start" | "join" | "start_and_join"
    opPhase,       \* the loop that call is in: "idle" | "start" | "join"
    opTimeout,     \* its timeout argument
    opResult,      \* how the last call ended: "none" | "returned" | "RuntimeError"
    visited,       \* the members the current loop has been through
    member,        \* the loop variable t of ThreadSet.join inside t.join, else 0
    memberArg,     \* the timeout argument of that t.join
    startCalls,    \* [Handles -> number of t.start() calls the call has made that started t]
    cls,           \* [SetNames -> class of the object]: a ThreadSet class, or the class of an operand that is no ThreadSet
    ret,           \* how the last operator or query on a ThreadSet ended, and what it returned
    barrier,       \* the threads waiting in b.wait() of the threading.Barrier of the reader/writer protocol
    writers_done,  \* the threading.Event of the reader/writer protocol
    bpc,           \* the statement of the protocol body the main thread is at
    lenAtEnter     \* the length of the registry when the with-statement in progress was entered

vars == <<state, work, wpc, faulted, counter, join_timeout, registry, usage, tm,
          pcMain, excInfo, propagated, fpc, fthread, held, startedAtExit,
          idx, pcExit, cur, joinArg,
          sets, opName, opPhase, opTimeout, opResult, visited, member, memberArg,
          startCalls, cls, ret, barrier, writers_done, bpc, lenAtEnter>>

threadVars == <<state, work, wpc, faulted, counter>>
scopeVars == <<usage, tm, pcMain, excInfo, propagated, startedAtExit>>
factoryVars == <<fpc, fthread, held>>
exitVars == <<idx, pcExit, cur, joinArg>>
opVars == <<opName, opPhase, opTimeout, opResult, visited, member, memberArg, startCalls>>
unionVars == <<cls, ret>>
protoVars == <<barrier, writers_done, bpc>>
tmVars == <<join_timeout, registry, scopeVars, factoryVars, exitVars>>
\* What no method of ThreadManager touches.
setVars == <<sets, opVars, unionVars, protoVars, lenAtEnter>>
\* What no bulk method of ThreadSet touches.
managerVars == <<tmVars, unionVars, protoVars, lenAtEnter>>

Range(s) == {s[i] : i \in DOMAIN s}

\* ------------------------------------------------------ threading.Thread
\* Thread.is_alive(): started and not yet finished.
IsAlive(h) == state[h] = "running"

\* Thread.start() raises RuntimeError unless the thread is not started.
StartRaises(h) == state[h] # "new"

\* A join that re-raises the fault of the target.
JoinRaisesFault(h) == state[h] = "new" \/ h \in faulted

\* Thread.join() raises RuntimeError on a thread that is not started; a fault
\* of the target is not re-raised by join.
JoinRaises(h) == state[h] = "new"

\* Thread.join(timeout) returns when the thread has finished.
JoinReturns(h) == state[h] = "finished"

\* Thread.join(timeout) gives up on a running thread only with a timeout.
JoinTimesOut(h, timeout) == state[h] = "running" /\ timeout # NoTimeout

\* The handles that have been started.
Started == {h \in Handles : state[h] \in {"running", "finished"}}

\* The Thread object the next constructor call allocates.
NextFree == CHOOSE h \in Handles : state[h] = "absent" /\ \A g \in Handles : g < h => state[g] # "absent"

\* ------------------------------------------------------- ThreadManager
\* ThreadManager.__init__
ManagerInit ==
    /\ join_timeout \in {NoTimeout, FiniteTimeout}
    /\ registry = <<>>

\* An append that writes the slot it found last, as a read-modify-write of
\* the list that is not atomic would.
ListAppendOverwrite(l, x) == IF Len(l) > 1 THEN [l EXCEPT ![Len(l)] = x] ELSE Append(l, x)

\* An insertion at the front of the list: l.insert(0, x)
ListInsertFront(l, x) == <<x>> \o l

\* list.append, one atomic operation of the interpreter
ListAppend(l, x) == Append(l, x)

\* __enter__ has the body "pass": it returns None
EnterResult == "None"

\* __exit__ ends without a return statement: it returns None, which does not
\* suppress the exception of the body
ExitSuppresses == FALSE

\* An __exit__ that joins nothing.
ShouldJoinNever(h) == FALSE

\* An __exit__ that joins only when the body left without an exception.
ShouldJoinUnlessFault(h) == IsAlive(h) /\ excInfo = "none"

\* An __exit__ that joins without asking is_alive().
ShouldJoinAlways(h) == TRUE

\* __exit__ joins a thread when is_alive() is true
ShouldJoin(h) == IsAlive(h)

\* The classes of ThreadSet objects: ThreadSet and a subclass of it (the
\* methods say self.__class__, never ThreadSet).
Classes == {"ThreadSet", "SubThreadSet"}

\* The class of an operand that is no ThreadSet: a builtin set of threads.
NotThreadSet == "set"

\* No operator or query has been evaluated.
NoRet == [op |-> "none", self |-> "-", other |-> "-", outcome |-> "none", value |-> "-"]

\* The reader/writer protocol is not in use, the manager is in its first
\* with-statement.
NoProtocol ==
    /\ lenAtEnter = 0
    /\ barrier = {}
    /\ writers_done = FALSE
    /\ bpc = "none"

\* No ThreadSet is in use.
NoSets ==
    /\ cls = [n \in SetNames |-> "ThreadSet"]
    /\ ret = NoRet
    /\ NoProtocol
    /\ sets = [n \in SetNames |-> {}]
    /\ opName = "none"
    /\ opPhase = "idle"
    /\ opTimeout = NoTimeout
    /\ opResult = "none"
    /\ visited = {}
    /\ member = 0
    /\ memberArg = NoCall
    /\ startCalls = [h \in Handles |-> 0]

Init ==
    /\ state = [h \in Handles |-> "absent"]
    /\ work = [h \in Handles |-> "none"]
    /\ wpc = [h \in Handles |-> "begin"]
    /\ faulted = {}
    /\ counter = 0
    /\ ManagerInit
    /\ usage \in {"as_clause", "assigned"}
    /\ tm = "unbound"
    /\ pcMain = "new"
    /\ excInfo = "none"
    /\ propagated = "none"
    /\ fpc = [c \in Callers |-> "idle"]
    /\ fthread = [c \in Callers |-> 0]
    /\ held = {}
    /\ startedAtExit = {}
    /\ idx = 0
    /\ pcExit = "iter"
    /\ cur = 0
    /\ joinArg = NoCall
    /\ NoSets

\* The with-statement calls __enter__; "as tm" binds its result.
Enter ==
    /\ pcMain = "new"
    /\ pcMain' = "body"
    /\ tm' = IF usage = "as_clause" THEN EnterResult ELSE "manager"
    /\ UNCHANGED <<threadVars, join_timeout, registry, usage, excInfo, propagated,
                   startedAtExit, factoryVars, exitVars, setVars>>

\* Who may be executing a statement that uses the manager.
CanCall(c) ==
    /\ pcMain \in {"body", "exit"}
    /\ IF c = Main THEN pcMain = "body" /\ tm = "manager"
       ELSE state[c] = "running" /\ work[c] = "free"

\* ThreadManager.__call__, line 86: thread = self.THREAD_CLASS(target=...)
Call(c, w) ==
    /\ CanCall(c)
    /\ fpc[c] = "idle"
    /\ \E h \in Handles : state[h] = "absent"
    /\ state' = [state EXCEPT ![NextFree] = "new"]
    /\ work' = [work EXCEPT ![NextFree] = w]
    /\ fthread' = [fthread EXCEPT ![c] = NextFree]
    /\ fpc' = [fpc EXCEPT ![c] = "call"]
    /\ UNCHANGED <<wpc, faulted, counter, join_timeout, registry, scopeVars, held, exitVars, setVars>>

\* ThreadManager.__call__, lines 87-88: append and return
CallAppend(c) ==
    /\ fpc[c] = "call"
    /\ pcMain \in {"body", "exit"}
    /\ registry' = ListAppend(registry, fthread[c])
    /\ held' = held \cup {fthread[c]}
    /\ fpc' = [fpc EXCEPT ![c] = "idle"]
    /\ fthread' = [fthread EXCEPT ![c] = 0]
    /\ UNCHANGED <<threadVars, join_timeout, scopeVars, exitVars, setVars>>

\* ThreadManager.create_thread, line 94: thread = self.THREAD_CLASS(*args, **kwargs)
CreateThread(c, w) ==
    /\ c = Main
    /\ CanCall(c)
    /\ fpc[c] = "idle"
    /\ \E h \in Handles : state[h] = "absent"
    /\ state' = [state EXCEPT ![NextFree] = "new"]
    /\ work' = [work EXCEPT ![NextFree] = w]
    /\ fthread' = [fthread EXCEPT ![c] = NextFree]
    /\ fpc' = [fpc EXCEPT ![c] = "create_thread"]
    /\ UNCHANGED <<wpc, faulted, counter, join_timeout, registry, scopeVars, held, exitVars, setVars>>

\* ThreadManager.create_thread, lines 95-96: append and return
CreateThreadAppend(c) ==
    /\ fpc[c] = "create_thread"
    /\ pcMain \in {"body", "exit"}
    /\ registry' = ListAppend(registry, fthread[c])
    /\ held' = held \cup {fthread[c]}
    /\ fpc' = [fpc EXCEPT ![c] = "idle"]
    /\ fthread' = [fthread EXCEPT ![c] = 0]
    /\ UNCHANGED <<threadVars, join_timeout, scopeVars, exitVars, setVars>>

\* The body uses tm as a factory while tm is None: TypeError, the body is left.
BodyCallNone ==
    /\ pcMain = "body"
    /\ tm = "None"
    /\ pcMain' = "exit"
    /\ excInfo' = "TypeError"
    /\ startedAtExit' = Started
    /\ UNCHANGED <<threadVars, join_timeout, registry, usage, tm, propagated,
                   factoryVars, exitVars, setVars>>

\* The names an attribute lookup on a ThreadManager finds: what the class
\* body (lines 74-104) and __init__ (lines 77-78) define.
ManagerAttributes == {"THREAD_CLASS", "__init__", "__call__", "create_thread",
                      "__enter__", "__exit__", "_join_timeout", "_threads"}

\* readers = tm.create_set(n, work, ...) in the body (test_ft_list.py:36): the
\* lookup of a name the manager does not have raises AttributeError, the body
\* is left.
BodyCreateSet ==
    /\ pcMain = "body"
    /\ fpc[Main] = "idle"
    /\ tm = "manager"
    /\ "create_set" \notin ManagerAttributes
    /\ pcMain' = "exit"
    /\ excInfo' = "AttributeError"
    /\ startedAtExit' = Started
    /\ UNCHANGED <<threadVars, join_timeout, registry, usage, tm, propagated,
                   factoryVars, exitVars, setVars>>

\* The body calls start() on a handle a factory call returned. (A second
\* start() of a handle raises RuntimeError: that body is left by BodyRaise.)
BodyStart(h) ==
    /\ pcMain = "body"
    /\ fpc[Main] = "idle"
    /\ h \in held
    /\ ~StartRaises(h)
    /\ state' = [state EXCEPT ![h] = "running"]
    /\ UNCHANGED <<work, wpc, faulted, counter, join_timeout, registry, scopeVars,
                   factoryVars, exitVars, setVars>>

\* The body runs off its end (or returns early): __exit__(None, None, None).
BodyReturn ==
    /\ pcMain = "body"
    /\ fpc[Main] = "idle"
    /\ pcMain' = "exit"
    /\ startedAtExit' = Started
    /\ UNCHANGED <<threadVars, join_timeout, registry, usage, tm, excInfo, propagated,
                   factoryVars, exitVars, setVars>>

\* A statement of the body raises: __exit__(type, value, traceback).
BodyRaise ==
    /\ pcMain = "body"
    /\ fpc[Main] = "idle"
    /\ pcMain' = "exit"
    /\ excInfo' = "Fault"
    /\ startedAtExit' = Started
    /\ UNCHANGED <<threadVars, join_timeout, registry, usage, tm, propagated,
                   factoryVars, exitVars, setVars>>

\* ------------------------------------------------------------- workers
Running(h) == state[h] = "running" /\ pcMain \in {"body", "exit"}

\* An "incr" target: with lock: counter += 1
WorkerIncrement(h) ==
    /\ Running(h)
    /\ work[h] = "incr"
    /\ wpc[h] = "begin"
    /\ counter' = counter + 1
    /\ wpc' = [wpc EXCEPT ![h] = "ret"]
    /\ UNCHANGED <<state, work, faulted, join_timeout, registry, scopeVars, factoryVars, exitVars, setVars>>

\* A target returns: the thread finishes.
WorkerReturn(h) ==
    /\ Running(h)
    /\ \/ work[h] = "incr" /\ wpc[h] = "ret"
       \/ work[h] = "free" /\ fpc[h] = "idle"
    /\ state' = [state EXCEPT ![h] = "finished"]
    /\ UNCHANGED <<work, wpc, faulted, counter, join_timeout, registry, scopeVars, factoryVars, exitVars, setVars>>

\* A target raises: the thread finishes, nothing else changes.
WorkerFault(h) ==
    /\ Running(h)
    /\ work[h] = "free"
    /\ fpc[h] = "idle"
    /\ state' = [state EXCEPT ![h] = "finished"]
    /\ faulted' = faulted \cup {h}
    /\ UNCHANGED <<work, wpc, counter, join_timeout, registry, scopeVars, factoryVars, exitVars, setVars>>

\* A "free" target calls start() on a handle a factory call returned; a
\* RuntimeError of start() is a fault of the target.
WorkerStart(h, g) ==
    /\ Running(h)
    /\ work[h] = "free"
    /\ fpc[h] = "idle"
    /\ g \in held
    /\ g # h
    /\ IF StartRaises(g)
       THEN /\ state' = [state EXCEPT ![h] = "finished"]
            /\ faulted' = faulted \cup {h}
       ELSE /\ state' = [state EXCEPT ![g] = "running"]
            /\ UNCHANGED faulted
    /\ UNCHANGED <<work, wpc, counter, join_timeout, registry, scopeVars, factoryVars, exitVars, setVars>>

\* ------------------------------------------------- ThreadManager.__exit__
\* A join without the configured timeout: thread.join()
JoinArgumentNone == NoTimeout

\* The argument of thread.join(self._join_timeout)   (line 104)
JoinArgument == join_timeout

\* for thread in self._threads: if thread.is_alive():   (lines 102-103)
\* The list iterator compares its position with the list's current length.
ExitExamine ==
    /\ pcMain = "exit"
    /\ pcExit = "iter"
    /\ idx < Len(registry)
    /\ idx' = idx + 1
    /\ cur' = registry[idx + 1]
    /\ IF ShouldJoin(registry[idx + 1])
       THEN pcExit' = "join" /\ joinArg' = JoinArgument
       ELSE pcExit' = "iter" /\ joinArg' = NoCall
    /\ UNCHANGED <<threadVars, join_timeout, registry, scopeVars, factoryVars, setVars>>

\* thread.join(self._join_timeout) ends: it returns (the thread has finished,
\* or the timeout has passed) or raises   (line 104)
ExitJoin ==
    /\ pcMain = "exit"
    /\ pcExit = "join"
    /\ JoinRaises(cur) \/ JoinReturns(cur) \/ JoinTimesOut(cur, joinArg)
    /\ IF JoinRaises(cur)
       THEN pcMain' = "exited" /\ propagated' = "RuntimeError"
       ELSE pcMain' = pcMain /\ propagated' = propagated
    /\ pcExit' = "iter"
    /\ joinArg' = NoCall
    /\ UNCHANGED <<threadVars, join_timeout, registry, usage, tm, excInfo, startedAtExit,
                   factoryVars, idx, cur, setVars>>

\* An __exit__ that forgets its threads when it returns: self._threads.clear()
ExitReturnClears ==
    /\ pcMain = "exit"
    /\ pcExit = "iter"
    /\ idx >= Len(registry)
    /\ pcMain' = "exited"
    /\ propagated' = IF ExitSuppresses THEN "none" ELSE excInfo
    /\ registry' = <<>>
    /\ UNCHANGED <<threadVars, join_timeout, usage, tm, excInfo, startedAtExit,
                   factoryVars, exitVars, setVars>>

\* The iterator is exhausted: __exit__ returns   (line 102, end of loop)
ExitReturn ==
    /\ pcMain = "exit"
    /\ pcExit = "iter"
    /\ idx >= Len(registry)
    /\ pcMain' = "exited"
    /\ propagated' = IF ExitSuppresses THEN "none" ELSE excInfo
    /\ UNCHANGED <<threadVars, join_timeout, registry, usage, tm, excInfo, startedAtExit,
                   factoryVars, exitVars, setVars>>

ExitStep == ExitExamine \/ ExitJoin \/ ExitReturn

Next ==
    \/ Enter
    \/ \E c \in Callers, w \in Work : Call(c, w)
    \/ \E c \in Callers : CallAppend(c)
    \/ \E w \in Work : CreateThread(Main, w)
    \/ CreateThreadAppend(Main)
    \/ BodyCallNone
    \/ \E h \in Handles : BodyStart(h)
    \/ BodyReturn
    \/ BodyRaise
    \/ \E h \in Handles : WorkerIncrement(h)
    \/ \E h \in Handles : WorkerReturn(h)
    \/ \E h \in Handles : WorkerFault(h)
    \/ \E h, g \in Handles : WorkerStart(h, g)
    \/ ExitExamine
    \/ ExitJoin
    \/ ExitReturn

Spec == Init /\ [][Next]_vars

\* The scope of test_ft_list.py, lines 34-38: the body creates handles with
\* tm(...), calls tm.create_set(...), starts what it holds; the targets run
\* to their end.
CreateSetNext ==
    \/ Enter
    \/ \E w \in Work : Call(Main, w)
    \/ CallAppend(Main)
    \/ BodyCallNone
    \/ BodyCreateSet
    \/ \E h \in Handles : BodyStart(h)
    \/ BodyReturn
    \/ \E h \in Handles : WorkerIncrement(h)
    \/ \E h \in Handles : WorkerReturn(h)
    \/ ExitExamine
    \/ ExitJoin
    \/ ExitReturn

CreateSetSpec == Init /\ [][CreateSetNext]_vars

\* with tm: once more, on a manager whose with-statement is over. __enter__
\* does nothing; the locals of the __exit__ call that is over are gone.
Reenter ==
    /\ pcMain = "exited"
    /\ tm = "manager"
    /\ pcMain' = "body"
    /\ excInfo' = "none"
    /\ propagated' = "none"
    /\ startedAtExit' = {}
    /\ idx' = 0
    /\ pcExit' = "iter"
    /\ cur' = 0
    /\ joinArg' = NoCall
    /\ lenAtEnter' = Len(registry)
    /\ UNCHANGED <<threadVars, join_timeout, registry, usage, tm, factoryVars,
                   sets, opVars, unionVars, protoVars>>

\* tm = ThreadManager(...), used for one with-statement after the other: the
\* body and running targets create handles with tm(...), the body starts
\* handles and ends, the targets run to their end.
ReuseInit == Init /\ usage = "assigned"

ReuseNext ==
    \/ Enter
    \/ \E c \in Callers, w \in Work : Call(c, w)
    \/ \E c \in Callers : CallAppend(c)
    \/ \E h \in Handles : BodyStart(h)
    \/ BodyReturn
    \/ \E h \in Handles : WorkerIncrement(h)
    \/ \E h \in Handles : WorkerReturn(h)
    \/ ExitExamine
    \/ ExitJoin
    \/ ExitReturn
    \/ Reenter

ReuseSpec == ReuseInit /\ [][ReuseNext]_vars

\* A manager constructed with a finite join_timeout.
TimeoutInit == Init /\ join_timeout = FiniteTimeout

\* The scope of a manager with a finite join_timeout, where the thread that
\* runs __exit__ keeps running.
FairSpec == TimeoutInit /\ [][Next]_vars /\ WF_vars(ExitStep)

\* ------------------------------------------------------------------------
\* ThreadSet
\* ------------------------------------------------------------------------
\* The iterables a ThreadSet is constructed from: sequences of Thread
\* objects, a Thread possibly more than once.
Iterables == UNION {[1..n -> Handles] : n \in 0..MaxIterable}

\* ThreadSet.__init__: self._threads = set(threads)
ThreadSetInit(threads) == {threads[i] : i \in DOMAIN threads}

\* ThreadSet.__or__ on two ThreadSets: self.__class__(self._threads | other._threads)
ThreadSetOr(self, other) == self \cup other

\* ThreadSet.__len__
ThreadSetLen(self) == Cardinality(self)

\* ThreadSet.is_alive: one is_alive() value for each thread of the set
ThreadSetIsAlive(self) == [t \in self |-> IsAlive(t)]

\* An iteration that comes to a thread it has been through again, as the
\* iteration of a list that holds a thread twice does.
IterNextAgain(self, seen) == self

\* for t in self._threads: the threads the iteration of the set can yield
\* next, each thread of the set once, in no particular order
IterNext(self, seen) == self \ seen

\* A join of each member without the timeout of the caller: t.join(0.0)
MemberJoinArgumentFixed(timeout) == FiniteTimeout

\* ThreadSet.join: the argument of t.join(timeout)
MemberJoinArgument(timeout) == timeout

\* The program creates MaxThreads Thread objects itself, none through a
\* manager, and two ThreadSets a and b; u is ThreadSet().
SetInit ==
    /\ state = [h \in Handles |-> "new"]
    /\ work = [h \in Handles |-> "free"]
    /\ wpc = [h \in Handles |-> "begin"]
    /\ faulted = {}
    /\ counter = 0
    /\ ManagerInit
    /\ join_timeout = NoTimeout
    /\ usage = "assigned"
    /\ tm = "unbound"
    /\ pcMain = "body"
    /\ excInfo = "none"
    /\ propagated = "none"
    /\ fpc = [c \in Callers |-> "idle"]
    /\ fthread = [c \in Callers |-> 0]
    /\ held = {}
    /\ startedAtExit = {}
    /\ idx = 0
    /\ pcExit = "iter"
    /\ cur = 0
    /\ joinArg = NoCall
    /\ \E ta, tb \in Iterables :
          sets = [n \in SetNames |-> IF n = "A" THEN ThreadSetInit(ta)
                                     ELSE IF n = "B" THEN ThreadSetInit(tb)
                                     ELSE ThreadSetInit(<<>>)]
    /\ opName = "none"
    /\ opPhase = "idle"
    /\ opTimeout = NoTimeout
    /\ opResult = "none"
    /\ visited = {}
    /\ member = 0
    /\ memberArg = NoCall
    /\ startCalls = [h \in Handles |-> 0]
    /\ cls = [n \in SetNames |-> "ThreadSet"]
    /\ ret = NoRet
    /\ NoProtocol

\* The main thread calls t.start() on a thread that is not started.
DirectStart(h) ==
    /\ opPhase = "idle"
    /\ ~StartRaises(h)
    /\ state' = [state EXCEPT ![h] = "running"]
    /\ UNCHANGED <<work, wpc, faulted, counter, managerVars, setVars>>

\* u = a | b
Or ==
    /\ opPhase = "idle"
    /\ sets' = [sets EXCEPT !["U"] = ThreadSetOr(sets["A"], sets["B"])]
    /\ UNCHANGED <<threadVars, managerVars, opVars>>

\* The main thread calls u.start()
StartCall ==
    /\ opPhase = "idle"
    /\ opName' = "start"
    /\ opPhase' = "start"
    /\ opResult' = "none"
    /\ UNCHANGED <<threadVars, managerVars, sets, opTimeout, visited, member, memberArg,
                   startCalls>>

\* The main thread calls u.start_and_join(join_timeout): self.start()
StartAndJoinCall(timeout) ==
    /\ opPhase = "idle"
    /\ opName' = "start_and_join"
    /\ opPhase' = "start"
    /\ opTimeout' = timeout
    /\ opResult' = "none"
    /\ UNCHANGED <<threadVars, managerVars, sets, visited, member, memberArg, startCalls>>

\* The call of the main thread is over: its locals are gone.
OpOver(result) ==
    /\ opPhase' = "idle"
    /\ opName' = "none"
    /\ opTimeout' = NoTimeout
    /\ opResult' = result
    /\ visited' = {}
    /\ member' = 0
    /\ memberArg' = NoCall
    /\ startCalls' = [h \in Handles |-> 0]

\* ThreadSet.start, lines 14-15: the next t of the set, t.start(); a
\* RuntimeError of t.start() ends the call
StartStep(t) ==
    /\ opPhase = "start"
    /\ t \in IterNext(sets["U"], visited)
    /\ IF StartRaises(t)
       THEN /\ OpOver("RuntimeError")
            /\ UNCHANGED state
       ELSE /\ state' = [state EXCEPT ![t] = "running"]
            /\ visited' = visited \cup {t}
            /\ startCalls' = [startCalls EXCEPT ![t] = @ + 1]
            /\ UNCHANGED <<opName, opPhase, opTimeout, opResult, member, memberArg>>
    /\ UNCHANGED <<work, wpc, faulted, counter, managerVars, sets>>

\* ThreadSet.start returns; start_and_join goes on with self.join(join_timeout)
StartEnd ==
    /\ opPhase = "start"
    /\ IterNext(sets["U"], visited) = {}
    /\ IF opName = "start_and_join"
       THEN /\ opPhase' = "join"
            /\ visited' = {}
            /\ UNCHANGED <<opName, opTimeout, opResult, member, memberArg, startCalls>>
       ELSE OpOver("returned")
    /\ UNCHANGED <<threadVars, managerVars, sets>>

\* The main thread calls u.join(timeout)
JoinCall(timeout) ==
    /\ opPhase = "idle"
    /\ opName' = "join"
    /\ opPhase' = "join"
    /\ opTimeout' = timeout
    /\ opResult' = "none"
    /\ UNCHANGED <<threadVars, managerVars, sets, visited, member, memberArg, startCalls>>

\* ThreadSet.join, lines 19-20: the next t of the set, t.join(timeout) is called
JoinNext(t) ==
    /\ opPhase = "join"
    /\ member = 0
    /\ t \in IterNext(sets["U"], visited)
    /\ member' = t
    /\ memberArg' = MemberJoinArgument(opTimeout)
    /\ UNCHANGED <<threadVars, managerVars, sets, opName, opPhase, opTimeout,
                   opResult, visited, startCalls>>

\* A t.join(timeout) that returns at once for every thread that is not
\* alive, started or not.
JoinWaitLenient ==
    /\ opPhase = "join"
    /\ member # 0
    /\ ~IsAlive(member) \/ JoinTimesOut(member, memberArg)
    /\ visited' = visited \cup {member}
    /\ member' = 0
    /\ memberArg' = NoCall
    /\ UNCHANGED <<opName, opPhase, opTimeout, opResult, startCalls>>
    /\ UNCHANGED <<threadVars, managerVars, sets>>

\* t.join(timeout) ends: it returns (the thread has finished, or the timeout
\* has passed) or raises, which ends ThreadSet.join
JoinWait ==
    /\ opPhase = "join"
    /\ member # 0
    /\ JoinRaises(member) \/ JoinReturns(member) \/ JoinTimesOut(member, memberArg)
    /\ IF JoinRaises(member)
       THEN OpOver("RuntimeError")
       ELSE /\ visited' = visited \cup {member}
            /\ member' = 0
            /\ memberArg' = NoCall
            /\ UNCHANGED <<opName, opPhase, opTimeout, opResult, startCalls>>
    /\ UNCHANGED <<threadVars, managerVars, sets>>

\* ThreadSet.join returns
JoinEnd ==
    /\ opPhase = "join"
    /\ member = 0
    /\ IterNext(sets["U"], visited) = {}
    /\ OpOver("returned")
    /\ UNCHANGED <<threadVars, managerVars, sets>>

SetNext ==
    \/ \E h \in Handles : DirectStart(h)
    \/ Or
    \/ StartCall
    \/ \E timeout \in {NoTimeout, FiniteTimeout} : StartAndJoinCall(timeout)
    \/ \E t \in Handles : StartStep(t)
    \/ StartEnd
    \/ \E timeout \in {NoTimeout, FiniteTimeout} : JoinCall(timeout)
    \/ \E t \in Handles : JoinNext(t)
    \/ JoinWait
    \/ JoinEnd
    \/ \E h \in Handles : WorkerReturn(h)
    \/ \E h \in Handles : WorkerFault(h)

SetSpec == SetInit /\ [][SetNext]_vars

\* ------------------------------------------------------------------------
\* ThreadSet operators: a | b, a |= b, len(a), a.is_alive(), ThreadSet(threads)
\* ------------------------------------------------------------------------
\* isinstance(obj, d) for an object of class c: c is d or a subclass of d.
IsInstance(c, d) == c = d \/ (c = "SubThreadSet" /\ d = "ThreadSet")

\* if not isinstance(other, self.__class__): raise TypeError   (lines 37-38, 47-48)
OperandRejected(selfCls, otherCls) == ~IsInstance(otherCls, selfCls)

\* An in-place union that takes the threads of the operand for its own:
\* self._threads = other._threads
ThreadSetIorAssign(self, other) == other

\* ThreadSet.__ior__, line 50: self._threads |= other._threads
ThreadSetIor(self, other) == self \cup other

\* The program has created MaxThreads Thread objects: of every three in a row
\* the first is not started, the second is running, the third has finished.
ExecState(h) == IF h % 3 = 1 THEN "new" ELSE IF h % 3 = 2 THEN "running" ELSE "finished"

\* The list 1, ..., k
FirstHandles(k) == [i \in 1..k |-> i]

\* The state of a program inside the scope of a manager: the first k Thread
\* objects were created through the manager, the others by threading.Thread().
ProgramInit(k) ==
    /\ state = [h \in Handles |-> ExecState(h)]
    /\ work = [h \in Handles |-> "free"]
    /\ wpc = [h \in Handles |-> "begin"]
    /\ faulted = {}
    /\ counter = 0
    /\ registry = FirstHandles(k)
    /\ usage = "assigned"
    /\ tm = "manager"
    /\ pcMain = "body"
    /\ excInfo = "none"
    /\ propagated = "none"
    /\ fpc = [c \in Callers |-> "idle"]
    /\ fthread = [c \in Callers |-> 0]
    /\ held = Range(FirstHandles(k))
    /\ startedAtExit = {}
    /\ idx = 0
    /\ pcExit = "iter"
    /\ cur = 0
    /\ joinArg = NoCall
    /\ opName = "none"
    /\ opPhase = "idle"
    /\ opTimeout = NoTimeout
    /\ opResult = "none"
    /\ visited = {}
    /\ member = 0
    /\ memberArg = NoCall
    /\ startCalls = [h \in Handles |-> 0]
    /\ ret = NoRet
    /\ NoProtocol

\* a and b are constructed from two iterables; a is a ThreadSet or an object
\* of a subclass, b is one of these or no ThreadSet at all.
UnionInit ==
    /\ ProgramInit(MaxThreads)
    /\ join_timeout = NoTimeout
    /\ \E ta, tb \in Iterables :
          sets = [n \in SetNames |-> IF n = "A" THEN ThreadSetInit(ta)
                                     ELSE IF n = "B" THEN ThreadSetInit(tb)
                                     ELSE ThreadSetInit(<<>>)]
    /\ \E ca \in Classes, cb \in Classes \cup {NotThreadSet} :
          cls = [n \in SetNames |-> IF n = "A" THEN ca ELSE IF n = "B" THEN cb ELSE "ThreadSet"]

\* The main thread is between two statements of the body.
AtStatement == pcMain = "body" /\ opPhase = "idle"

\* u = x | y   (ThreadSet.__or__, lines 32-40): x is a ThreadSet object
OrCall(x, y) ==
    /\ AtStatement
    /\ cls[x] \in Classes
    /\ IF OperandRejected(cls[x], cls[y])
       THEN /\ ret' = [op |-> "or", self |-> x, other |-> y, outcome |-> "TypeError", value |-> "-"]
            /\ UNCHANGED <<sets, cls>>
       ELSE /\ sets' = [sets EXCEPT !["U"] = ThreadSetOr(sets[x], sets[y])]
            /\ cls' = [cls EXCEPT !["U"] = cls[x]]
            /\ ret' = [op |-> "or", self |-> x, other |-> y, outcome |-> "returned", value |-> "U"]
    /\ UNCHANGED <<threadVars, tmVars, opVars, protoVars, lenAtEnter>>

\* x |= y   (ThreadSet.__ior__, lines 42-51): x is a ThreadSet object; the
\* statement binds x to what __ior__ returns, self
IorCall(x, y) ==
    /\ AtStatement
    /\ cls[x] \in Classes
    /\ IF OperandRejected(cls[x], cls[y])
       THEN /\ ret' = [op |-> "ior", self |-> x, other |-> y, outcome |-> "TypeError", value |-> "-"]
            /\ UNCHANGED sets
       ELSE /\ sets' = [sets EXCEPT ![x] = ThreadSetIor(sets[x], sets[y])]
            /\ ret' = [op |-> "ior", self |-> x, other |-> y, outcome |-> "returned", value |-> x]
    /\ UNCHANGED <<threadVars, tmVars, opVars, protoVars, lenAtEnter, cls>>

\* len(x)   (ThreadSet.__len__, lines 53-55)
LenCall(x) ==
    /\ AtStatement
    /\ cls[x] \in Classes
    /\ ret' = [op |-> "len", self |-> x, other |-> "-", outcome |-> "returned",
               value |-> ThreadSetLen(sets[x])]
    /\ UNCHANGED <<threadVars, tmVars, sets, opVars, protoVars, lenAtEnter, cls>>

\* list(x.is_alive())   (ThreadSet.is_alive, lines 27-30)
IsAliveCall(x) ==
    /\ AtStatement
    /\ cls[x] \in Classes
    /\ ret' = [op |-> "is_alive", self |-> x, other |-> "-", outcome |-> "returned",
               value |-> ThreadSetIsAlive(sets[x])]
    /\ UNCHANGED <<threadVars, tmVars, sets, opVars, protoVars, lenAtEnter, cls>>

\* A constructor that takes the threads over: it registers them with the
\* manager of the scope.
ConstructCallOwning(n, threads) ==
    /\ AtStatement
    /\ sets' = [sets EXCEPT ![n] = ThreadSetInit(threads)]
    /\ cls' = [cls EXCEPT ![n] = "ThreadSet"]
    /\ ret' = [op |-> "init", self |-> n, other |-> "-", outcome |-> "returned", value |-> n]
    /\ registry' = registry \o threads
    /\ UNCHANGED <<threadVars, join_timeout, scopeVars, factoryVars, exitVars, opVars, protoVars, lenAtEnter>>

\* n = ThreadSet(threads)   (ThreadSet.__init__, lines 9-10)
ConstructCall(n, threads) ==
    /\ AtStatement
    /\ sets' = [sets EXCEPT ![n] = ThreadSetInit(threads)]
    /\ cls' = [cls EXCEPT ![n] = "ThreadSet"]
    /\ ret' = [op |-> "init", self |-> n, other |-> "-", outcome |-> "returned", value |-> n]
    /\ UNCHANGED <<threadVars, tmVars, opVars, protoVars, lenAtEnter>>

UnionNext ==
    \/ \E x, y \in {"A", "B"} : OrCall(x, y)
    \/ \E x, y \in {"A", "B"} : IorCall(x, y)
    \/ \E x \in SetNames : LenCall(x)
    \/ \E x \in SetNames : IsAliveCall(x)

UnionSpec == UnionInit /\ [][UnionNext]_vars

\* A scope whose manager (join_timeout None) created the first k threads; the
\* program created the others itself; no ThreadSet is constructed yet.
OwnerInit ==
    /\ \E k \in 0..MaxThreads : ProgramInit(k)
    /\ join_timeout = NoTimeout
    /\ sets = [n \in SetNames |-> {}]
    /\ cls = [n \in SetNames |-> "ThreadSet"]

\* The body constructs a, then b, from any threads, combines and queries the
\* sets while the running threads finish; then the scope is left.
OwnerNext ==
    \/ \E threads \in Iterables : ret.op = "none" /\ ConstructCall("A", threads)
    \/ \E threads \in Iterables : ret = [NoRet EXCEPT !.op = "init", !.self = "A",
                                                     !.outcome = "returned", !.value = "A"]
                                       /\ ConstructCall("B", threads)
    \/ \E x, y \in {"A", "B"} : OrCall(x, y)
    \/ \E x, y \in {"A", "B"} : IorCall(x, y)
    \/ \E x \in SetNames : LenCall(x)
    \/ \E x \in SetNames : IsAliveCall(x)
    \/ \E h \in Handles : WorkerReturn(h)
    \/ BodyReturn
    \/ ExitExamine
    \/ ExitJoin
    \/ ExitReturn

OwnerSpec == OwnerInit /\ [][OwnerNext]_vars

\* ------------------------------------------------------------------------
\* The reader/writer protocol (test_multithreaded_radix.py, lines 41-84, and
\* the example of the ThreadManager docstring)
\* ------------------------------------------------------------------------
\* n_writers and n_readers of the example
NWriters == 2
NReaders == 4

\* b = threading.Barrier(n_threads): the number of parties
Parties == NWriters + NReaders

\* The Thread objects of the protocol, in the order the body creates them.
ProtoThreads == 1..(NWriters + NReaders)
Writers == 1..NWriters
Readers == (NWriters + 1)..(NWriters + NReaders)

\* ThreadManager() with no argument, no thread created, the barrier and the
\* event as constructed.
ProtoInit ==
    /\ state = [h \in ProtoThreads |-> "absent"]
    /\ work = [h \in ProtoThreads |-> "none"]
    /\ wpc = [h \in ProtoThreads |-> "begin"]
    /\ faulted = {}
    /\ counter = 0
    /\ join_timeout = NoTimeout
    /\ registry = <<>>
    /\ usage \in {"as_clause", "assigned"}
    /\ tm = "unbound"
    /\ pcMain = "new"
    /\ excInfo = "none"
    /\ propagated = "none"
    /\ fpc = [c \in Callers |-> "idle"]
    /\ fthread = [c \in Callers |-> 0]
    /\ held = {}
    /\ startedAtExit = {}
    /\ idx = 0
    /\ pcExit = "iter"
    /\ cur = 0
    /\ joinArg = NoCall
    /\ sets = [n \in SetNames |-> {}]
    /\ opName = "none"
    /\ opPhase = "idle"
    /\ opTimeout = NoTimeout
    /\ opResult = "none"
    /\ visited = {}
    /\ member = 0
    /\ memberArg = NoCall
    /\ startCalls = [h \in Handles |-> 0]
    /\ cls = [n \in SetNames |-> "ThreadSet"]
    /\ ret = NoRet
    /\ barrier = {}
    /\ writers_done = FALSE
    /\ bpc = "writers"
    /\ lenAtEnter = 0

\* The body is executing a statement that uses the manager.
InProtoBody == pcMain = "body" /\ tm = "manager"

\* An exception leaves the body: __exit__(type, value, traceback).
ProtoRaise(exc) ==
    /\ pcMain' = "exit"
    /\ excInfo' = exc
    /\ startedAtExit' = Started
    /\ UNCHANGED <<usage, tm, propagated>>

\* tm(writer_target, i) / tm(reader_target, i) inside the generator the
\* ThreadSet is constructed from (radix lines 72, 75): __call__ creates the
\* Thread, appends it and returns it. No other thread runs yet.
ProtoCreate ==
    /\ InProtoBody
    /\ \/ bpc = "writers" /\ Len(registry) < NWriters
       \/ bpc = "readers" /\ Len(registry) < NWriters + NReaders
    /\ state' = [state EXCEPT ![Len(registry) + 1] = "new"]
    /\ work' = [work EXCEPT ![Len(registry) + 1] =
                   IF bpc = "writers" THEN "writer" ELSE "reader"]
    /\ registry' = ListAppend(registry, Len(registry) + 1)
    /\ held' = held \cup {Len(registry) + 1}
    /\ UNCHANGED <<wpc, faulted, counter, join_timeout, scopeVars, fpc, fthread,
                   exitVars, sets, opVars, unionVars, protoVars, lenAtEnter>>

\* writers = ThreadSet(...), readers = ThreadSet(...)   (radix lines 71-76):
\* the generator is exhausted, the set is made of the handles tm returned
ProtoConstruct ==
    /\ InProtoBody
    /\ \/ /\ bpc = "writers"
          /\ Len(registry) = NWriters
          /\ sets' = [sets EXCEPT !["B"] = ThreadSetInit(SubSeq(registry, 1, NWriters))]
          /\ bpc' = "readers"
       \/ /\ bpc = "readers"
          /\ Len(registry) = NWriters + NReaders
          /\ sets' = [sets EXCEPT !["A"] =
                         ThreadSetInit(SubSeq(registry, NWriters + 1, NWriters + NReaders))]
          /\ bpc' = "start"
    /\ UNCHANGED <<threadVars, tmVars, opVars, unionVars, barrier, writers_done, lenAtEnter>>

\* (readers | writers)   (radix line 81)
ProtoOr ==
    /\ InProtoBody
    /\ bpc = "start"
    /\ sets' = [sets EXCEPT !["U"] = ThreadSetOr(sets["A"], sets["B"])]
    /\ bpc' = "starting"
    /\ UNCHANGED <<threadVars, tmVars, opVars, unionVars, barrier, writers_done, lenAtEnter>>

\* .start() on the union: ThreadSet.start, lines 14-15, one t.start()
ProtoStartStep(t) ==
    /\ InProtoBody
    /\ bpc = "starting"
    /\ t \in IterNext(sets["U"], visited)
    /\ IF StartRaises(t)
       THEN /\ ProtoRaise("RuntimeError")
            /\ UNCHANGED <<state, visited>>
       ELSE /\ state' = [state EXCEPT ![t] = "running"]
            /\ visited' = visited \cup {t}
            /\ UNCHANGED scopeVars
    /\ UNCHANGED <<work, wpc, faulted, counter, join_timeout, registry, factoryVars, exitVars,
                   sets, opName, opPhase, opTimeout, opResult, member, memberArg, startCalls,
                   unionVars, protoVars, lenAtEnter>>

\* ThreadSet.start returns; the body goes on to writers.join()
ProtoStartEnd ==
    /\ InProtoBody
    /\ bpc = "starting"
    /\ IterNext(sets["U"], visited) = {}
    /\ bpc' = "join_writers"
    /\ visited' = {}
    /\ UNCHANGED <<threadVars, tmVars, sets, opName, opPhase, opTimeout, opResult, member,
                   memberArg, startCalls, unionVars, barrier, writers_done, lenAtEnter>>

\* The ThreadSet that writers.join() / readers.join() is called on.
JoinedSet == IF bpc = "join_writers" THEN sets["B"] ELSE sets["A"]

\* writers.join() / readers.join()   (radix lines 82, 84): ThreadSet.join,
\* lines 19-20, the next t of the set, t.join(None) is called
ProtoJoinStep(t) ==
    /\ InProtoBody
    /\ bpc \in {"join_writers", "join_readers"}
    /\ member = 0
    /\ t \in IterNext(JoinedSet, visited)
    /\ member' = t
    /\ memberArg' = MemberJoinArgument(NoTimeout)
    /\ UNCHANGED <<threadVars, tmVars, sets, opName, opPhase, opTimeout, opResult, visited,
                   startCalls, unionVars, protoVars, lenAtEnter>>

\* t.join(None) ends: the thread has finished, or it raises
ProtoJoinWait ==
    /\ InProtoBody
    /\ bpc \in {"join_writers", "join_readers"}
    /\ member # 0
    /\ JoinRaises(member) \/ JoinReturns(member) \/ JoinTimesOut(member, memberArg)
    /\ IF JoinRaises(member)
       THEN /\ ProtoRaise("RuntimeError")
            /\ UNCHANGED visited
       ELSE /\ visited' = visited \cup {member}
            /\ UNCHANGED scopeVars
    /\ member' = 0
    /\ memberArg' = NoCall
    /\ UNCHANGED <<threadVars, join_timeout, registry, factoryVars, exitVars, sets, opName,
                   opPhase, opTimeout, opResult, startCalls, unionVars, protoVars, lenAtEnter>>

\* A ThreadSet.join that returns before its loop is through the set.
ProtoJoinEndEarly ==
    /\ InProtoBody
    /\ bpc \in {"join_writers", "join_readers"}
    /\ member = 0
    /\ bpc' = IF bpc = "join_writers" THEN "set" ELSE "end"
    /\ visited' = {}
    /\ UNCHANGED <<threadVars, tmVars, sets, opName, opPhase, opTimeout, opResult, member,
                   memberArg, startCalls, unionVars, barrier, writers_done, lenAtEnter>>

\* ThreadSet.join returns: the loop is through the set
ProtoJoinEnd ==
    /\ InProtoBody
    /\ bpc \in {"join_writers", "join_readers"}
    /\ member = 0
    /\ IterNext(JoinedSet, visited) = {}
    /\ bpc' = IF bpc = "join_writers" THEN "set" ELSE "end"
    /\ visited' = {}
    /\ UNCHANGED <<threadVars, tmVars, sets, opName, opPhase, opTimeout, opResult, member,
                   memberArg, startCalls, unionVars, barrier, writers_done, lenAtEnter>>

\* writers_done.set()   (radix line 83)
ProtoSetFlag ==
    /\ InProtoBody
    /\ bpc = "set"
    /\ writers_done' = TRUE
    /\ bpc' = "join_readers"
    /\ UNCHANGED <<threadVars, tmVars, sets, opVars, unionVars, barrier, lenAtEnter>>

\* The body is at its end: __exit__(None, None, None)
ProtoBodyEnd == bpc = "end" /\ BodyReturn

\* b.wait() of a target (radix lines 57, 63): the thread arrives
BarrierArrive(h) ==
    /\ Running(h)
    /\ wpc[h] = "begin"
    /\ barrier' = barrier \cup {h}
    /\ wpc' = [wpc EXCEPT ![h] = "wait"]
    /\ UNCHANGED <<state, work, faulted, counter, tmVars, sets, opVars, unionVars,
                   writers_done, bpc, lenAtEnter>>

\* b.wait() returns once all parties have arrived
BarrierPass(h) ==
    /\ Running(h)
    /\ wpc[h] = "wait"
    /\ Cardinality(barrier) = Parties
    /\ wpc' = [wpc EXCEPT ![h] = "run"]
    /\ UNCHANGED <<state, work, faulted, counter, tmVars, setVars>>

\* writer_target returns after its loop over its addresses (radix lines 58-59)
WriterReturn(h) ==
    /\ Running(h)
    /\ work[h] = "writer"
    /\ wpc[h] = "run"
    /\ state' = [state EXCEPT ![h] = "finished"]
    /\ UNCHANGED <<work, wpc, faulted, counter, tmVars, setVars>>

\* reader_target finds writers_done.is_set() true and returns (radix line 64)
ReaderReturn(h) ==
    /\ Running(h)
    /\ work[h] = "reader"
    /\ wpc[h] = "run"
    /\ writers_done
    /\ state' = [state EXCEPT ![h] = "finished"]
    /\ UNCHANGED <<work, wpc, faulted, counter, tmVars, setVars>>

\* The steps of the thread that runs the with-statement; any statement of the
\* body may raise.
ProtoMainStep ==
    \/ Enter
    \/ BodyCallNone
    \/ ProtoCreate
    \/ ProtoConstruct
    \/ ProtoOr
    \/ \E t \in ProtoThreads : ProtoStartStep(t)
    \/ ProtoStartEnd
    \/ \E t \in ProtoThreads : ProtoJoinStep(t)
    \/ ProtoJoinWait
    \/ ProtoJoinEnd
    \/ ProtoSetFlag
    \/ ProtoBodyEnd
    \/ BodyRaise
    \/ ExitExamine
    \/ ExitJoin
    \/ ExitReturn

\* The steps of the thread h.
ProtoThreadStep(h) ==
    \/ BarrierArrive(h)
    \/ BarrierPass(h)
    \/ WriterReturn(h)
    \/ ReaderReturn(h)

ProtoNext ==
    \/ ProtoMainStep
    \/ \E h \in ProtoThreads : ProtoThreadStep(h)

\* The protocol with every thread that can run running: the scheduler leaves
\* no runnable thread waiting for ever.
ProtoSpec ==
    /\ ProtoInit
    /\ [][ProtoNext]_vars
    /\ WF_vars(ProtoMainStep)
    /\ \A h \in ProtoThreads : WF_vars(ProtoThreadStep(h))

\* ------------------------------------------------------------------------
\* Properties of the ThreadManager scope
\* ------------------------------------------------------------------------

\* The handles a factory call is holding between creating and appending them.
Pending == {fthread[c] : c \in {d \in Callers : fpc[d] # "idle"}}

\* The Thread objects constructed so far.
Created == {h \in Handles : state[h] # "absent"}

\* C1: with join_timeout None, no handle of the registry is running at the
\* moment __exit__ returns.
NoRunningHandleAtExit ==
    (pcMain = "exited" /\ join_timeout = NoTimeout)
        => \A h \in Range(registry) : state[h] # "running"

\* C2: with join_timeout None, every handle that was started when the body was
\* left (so every handle the body spawned and started) is finished when
\* __exit__ returns, and the increments of those handles are in the counter;
\* if nothing was started later the counter is exactly their number.
StartedHandlesFinishedAtExit ==
    (pcMain = "exited" /\ join_timeout = NoTimeout)
        => /\ \A h \in startedAtExit : state[h] = "finished"
           /\ counter >= Cardinality({h \in startedAtExit : work[h] = "incr"})
           /\ (Started = startedAtExit
                 => counter = Cardinality({h \in startedAtExit : work[h] = "incr"}))

\* C2 witness: the scope has exited with at least two started "incr" handles
\* that the body never joined.
StartedHandlesFinishedAtExitWitness ==
    /\ pcMain = "exited"
    /\ join_timeout = NoTimeout
    /\ Cardinality({h \in startedAtExit : work[h] = "incr"}) >= 2
    /\ counter >= 2

\* C3: every handle a factory call has returned is in the registry, the
\* registry holds no handle twice, and it holds exactly the created handles
\* whose factory call has appended them: all created handles once no factory
\* call is in flight.
RegistryExact ==
    /\ held \subseteq Range(registry)
    /\ \A i, j \in DOMAIN registry : registry[i] = registry[j] => i = j
    /\ Range(registry) = Created \ Pending
    /\ (Pending = {} => Len(registry) = Cardinality(Created))

\* C3 witness: two factory calls overlapped (a handle constructed later is
\* registered while the call that constructed an earlier one has not
\* appended yet), and a call has completed.
RegistryExactWitness ==
    \E c \in Callers, i \in DOMAIN registry :
        /\ fpc[c] # "idle"
        /\ registry[i] > fthread[c]
        /\ registry[i] \in held

\* C4: every step of the __exit__ loop takes the next registry entry and calls
\* join with the configured timeout exactly when the entry is alive, whatever
\* exception the body left with; when __exit__ has returned the whole registry
\* has been iterated and the exception of the body propagates.
ExitSameOnEveryPath ==
    /\ [][(pcMain = "exit" /\ idx' = idx + 1)
            => /\ cur' = registry[idx + 1]
               /\ IsAlive(registry[idx + 1]) => (pcExit' = "join" /\ joinArg' = join_timeout)
               /\ ~IsAlive(registry[idx + 1]) => (pcExit' = "iter" /\ joinArg' = NoCall)]_vars
    /\ [](pcMain = "exited" => (idx = Len(registry) /\ propagated = excInfo))

\* C4 witness: the body left with a fault, __exit__ has returned, the fault
\* propagates, and a handle that was running throughout (so it was joined,
\* with a timeout that passed) is in the registry.
ExitSameOnEveryPathWitness ==
    /\ pcMain = "exited"
    /\ excInfo = "Fault"
    /\ propagated = "Fault"
    /\ \E h \in startedAtExit : state[h] = "running" /\ h \in Range(registry)

\* C5: a step of the __exit__ loop that finds the next entry not started calls
\* no join, goes on to the following entry and raises nothing; no step of
\* __exit__ changes the state of a handle (so it starts none); an entry that
\* is alive is joined; and __exit__ never leaves with an exception of its own.
NotStartedTolerated ==
    /\ [][(pcMain = "exit" /\ idx' = idx + 1 /\ state[registry[idx + 1]] = "new")
            => (pcExit' = "iter" /\ joinArg' = NoCall /\ pcMain' = "exit"
                /\ propagated' = propagated)]_vars
    /\ [][(pcMain = "exit" /\ idx' = idx + 1 /\ state[registry[idx + 1]] = "running")
            => (pcExit' = "join" /\ cur' = registry[idx + 1])]_vars
    /\ [][(pcMain = "exit" /\ <<idx, pcExit, pcMain>>' # <<idx, pcExit, pcMain>>)
            => state' = state]_vars
    /\ [](propagated # "RuntimeError")

\* C5 witness: __exit__ has returned, a registered handle is still not
\* started, and another registered handle was started and has finished.
NotStartedToleratedWitness ==
    /\ pcMain = "exited"
    /\ \E h, g \in Range(registry) :
        /\ state[h] = "new"
        /\ g \in startedAtExit
        /\ state[g] = "finished"

\* C6: with a finite join_timeout every join of __exit__ is called with the
\* configured timeout, a join begins only together with taking the next
\* registry entry (one wait per entry at most), a join that ends while the
\* thread is running leaves the thread running and the loop in progress at
\* the same position, and __exit__ returns (the scope is not in __exit__ for
\* ever).
TimeoutNotFatal ==
    /\ [](pcExit = "join" => joinArg = join_timeout)
    /\ [](idx <= Len(registry))
    /\ [][(pcExit' = "join" /\ pcExit = "iter")
            => (idx' = idx + 1 /\ cur' = registry[idx'])]_vars
    /\ [][(pcExit = "join" /\ pcExit' = "iter" /\ state[cur] = "running")
            => (join_timeout = FiniteTimeout /\ pcMain' = "exit" /\ state' = state
                /\ idx' = idx /\ propagated' = propagated)]_vars
    /\ []<>(join_timeout = FiniteTimeout => pcMain # "exit")

\* C6 witness: __exit__ has returned with a finite timeout while two handles
\* that were started before it began are still running: both joins timed out,
\* the second after the first.
TimeoutNotFatalWitness ==
    /\ pcMain = "exited"
    /\ join_timeout = FiniteTimeout
    /\ Cardinality({h \in startedAtExit : state[h] = "running"}) >= 2

\* C7: a step in which a target raises finishes that one handle and changes
\* nothing else of the handles, the registry or the scope; a join of __exit__
\* on a faulted handle can end, and ends without raising; __exit__ leaves with
\* the exception of the body only.
FaultIsolated ==
    /\ [][faulted' # faulted
            => \E h \in Handles :
                 /\ faulted' = faulted \cup {h}
                 /\ state' = [state EXCEPT ![h] = "finished"]
                 /\ UNCHANGED <<registry, pcMain, pcExit, idx, excInfo, propagated>>]_vars
    /\ [](pcMain = "exit" /\ pcExit = "join" /\ cur \in faulted => ENABLED ExitJoin)
    /\ [][(pcExit = "join" /\ pcExit' = "iter" /\ cur \in faulted)
            => (pcMain' = "exit" /\ propagated' = propagated)]_vars
    /\ [](pcMain = "exited" => propagated = excInfo)

\* C7 witness: the body left normally, __exit__ has returned without an
\* exception, a handle whose target raised is in the registry, and a sibling
\* finished normally.
FaultIsolatedWitness ==
    /\ pcMain = "exited"
    /\ excInfo = "none"
    /\ propagated = "none"
    /\ \E h, g \in Range(registry) :
        /\ h \in faulted
        /\ g \notin faulted
        /\ state[g] = "finished"

\* C8: after "with ThreadManager() as tm:" has entered the scope, tm is the
\* manager.
AsClauseBindsManager ==
    (usage = "as_clause" /\ pcMain # "new") => tm = "manager"

\* ------------------------------------------------------------------------
\* Properties of ThreadSet
\* ------------------------------------------------------------------------

\* C9: a bulk start has started each member it has been through exactly once
\* and no other thread, also on a union of sets that share handles; it
\* returns only when it has been through every member; it ends with the
\* RuntimeError of t.start() only at a member it has not been through that
\* was already started, and that step changes the state of no thread (the
\* members started before stay started, the others are not touched).
BulkStartOnce ==
    /\ [](\A h \in Handles : startCalls[h] <= 1)
    /\ [](opPhase = "start"
            => /\ visited \subseteq sets["U"]
               /\ \A h \in Handles : startCalls[h] = IF h \in visited THEN 1 ELSE 0
               /\ \A v \in visited : state[v] # "new")
    /\ [][(opPhase = "start" /\ opPhase' # "start" /\ opResult' # "RuntimeError")
            => visited = sets["U"]]_vars
    /\ [][(opPhase = "start" /\ opResult' = "RuntimeError")
            => /\ \E t \in sets["U"] \ visited : state[t] # "new"
               /\ state' = state]_vars

\* C9 witness: a bulk start on the union of two sets that share a handle has
\* been through all its members, at least two.
BulkStartOnceWitness ==
    /\ opPhase = "start"
    /\ sets["A"] \cap sets["B"] # {}
    /\ sets["U"] = sets["A"] \cup sets["B"]
    /\ ThreadSetLen(sets["U"]) >= 2
    /\ visited = sets["U"]
    /\ \A h \in sets["U"] : startCalls[h] = 1

\* C10: every t.join of a bulk join gets the timeout of the caller; the bulk
\* join returns only when it has been through every member; with no timeout
\* every member it has been through has finished, so is_alive() is false for
\* every member when join or start_and_join returns, and start_and_join has
\* started every member.
BulkJoinAll ==
    /\ [](opPhase = "join" /\ member # 0
            => (memberArg = opTimeout /\ member \in sets["U"] \ visited))
    /\ [](opPhase = "join" /\ opTimeout = NoTimeout
            => \A v \in visited : state[v] = "finished")
    /\ [][(opPhase = "join" /\ opResult' = "returned")
            => /\ visited = sets["U"]
               /\ opTimeout = NoTimeout
                    => \A t \in sets["U"] : ~ThreadSetIsAlive(sets["U"])[t]
               /\ opName = "start_and_join"
                    => \A t \in sets["U"] : startCalls[t] = 1]_vars

\* C10 witness: start_and_join() with no timeout on a set of three threads
\* has joined all three and none is alive.
BulkJoinAllWitness ==
    /\ opName = "start_and_join"
    /\ opPhase = "join"
    /\ opTimeout = NoTimeout
    /\ member = 0
    /\ ThreadSetLen(sets["U"]) = 3
    /\ visited = sets["U"]
    /\ \A t \in sets["U"] : startCalls[t] = 1 /\ ~ThreadSetIsAlive(sets["U"])[t]

\* C14: the manager offers create_set: a body that calls tm.create_set(n,
\* work, ...) on the manager gets a ThreadSet back, the call does not fail on
\* the lookup of the name.
CreateSetOffered ==
    (tm = "manager") => excInfo # "AttributeError"

\* ------------------------------------------------------------------------
\* Properties of the ThreadSet operators
\* ------------------------------------------------------------------------
\* The operands that are ThreadSet objects.
ThreadSetOperands == {n \in {"A", "B"} : cls[n] \in Classes}

\* C11: for all ThreadSets x and y, x | y holds exactly the threads of x or y,
\* its size is at most len(x) + len(y), with equality exactly when x and y
\* share no thread, and x | y and y | x end the same way with the same threads.
UnionCommutes ==
    /\ \A x, y \in ThreadSetOperands :
          /\ \A h \in Handles :
                h \in ThreadSetOr(sets[x], sets[y]) <=> (h \in sets[x] \/ h \in sets[y])
          /\ ThreadSetLen(ThreadSetOr(sets[x], sets[y]))
                <= ThreadSetLen(sets[x]) + ThreadSetLen(sets[y])
          /\ (ThreadSetLen(ThreadSetOr(sets[x], sets[y]))
                = ThreadSetLen(sets[x]) + ThreadSetLen(sets[y]))
                <=> (sets[x] \cap sets[y] = {})
          /\ ThreadSetOr(sets[x], sets[y]) = ThreadSetOr(sets[y], sets[x])
    /\ (ret.op = "or" /\ ret.other \in ThreadSetOperands)
          => ((ret.outcome = "TypeError")
                <=> OperandRejected(cls[ret.other], cls[ret.self]))

\* C12: x | y returns a new object and leaves x and y as they were; x |= y
\* makes x exactly the union, leaves every other set as it was and returns x
\* itself; when x already holds the threads of y (x |= x too) nothing changes.
UnionFrame ==
    [][(sets' # sets \/ cls' # cls \/ ret' # ret) =>
         /\ (ret'.op = "or" /\ ret'.outcome = "returned") =>
               /\ ret'.value = "U"
               /\ ret'.value \notin {ret'.self, ret'.other}
               /\ sets'["U"] = sets[ret'.self] \cup sets[ret'.other]
               /\ sets'["A"] = sets["A"]
               /\ sets'["B"] = sets["B"]
         /\ (ret'.op = "ior" /\ ret'.outcome = "returned") =>
               /\ ret'.value = ret'.self
               /\ sets'[ret'.self] = sets[ret'.self] \cup sets[ret'.other]
               /\ \A n \in SetNames \ {ret'.self} : sets'[n] = sets[n]
               /\ cls' = cls
               /\ (sets[ret'.other] \subseteq sets[ret'.self] => sets' = sets)
      ]_vars

\* C12 witness: x |= y has returned x for two different objects, and x holds
\* more threads than any iterable it could have been constructed from.
UnionFrameWitness ==
    /\ ret.op = "ior"
    /\ ret.outcome = "returned"
    /\ ret.self # ret.other
    /\ ret.value = ret.self
    /\ sets[ret.other] # {}
    /\ Cardinality(sets[ret.self]) > MaxIterable

\* C13: x | y and x |= y raise TypeError exactly when y is no ThreadSet; a
\* failed x |= y leaves x as it was.
UnionTypeErrorExact ==
    (ret.op \in {"or", "ior"})
        => ((ret.outcome = "TypeError") <=> (cls[ret.other] \notin Classes))

\* ------------------------------------------------------------------------
\* Properties of the bulk operations on members that are not started
\* ------------------------------------------------------------------------
\* C16: a join loop of a ThreadSet that ends while the set holds a thread
\* that is not started has not returned normally: the t.join of a thread that
\* is not started ends the call with RuntimeError (or the call is still
\* waiting in an earlier member).
BulkJoinNotStarted ==
    [][(opPhase = "join" /\ opPhase' = "idle") =>
         /\ (opResult' = "returned" => \A t \in sets["U"] : state[t] # "new")
         /\ ((member # 0 /\ state[member] = "new") => opResult' = "RuntimeError")
         /\ ((\E t \in sets["U"] : state[t] = "new") => opResult' = "RuntimeError")
      ]_vars

\* C16 witness: u.join() has been through a member that finished and is inside
\* t.join of a member that is not started.
BulkJoinNotStartedWitness ==
    /\ opName = "join"
    /\ opPhase = "join"
    /\ member # 0
    /\ state[member] = "new"
    /\ \E t \in visited : state[t] = "finished"

\* ------------------------------------------------------------------------
\* Properties of ThreadSet membership
\* ------------------------------------------------------------------------
\* C17: a step that constructs, combines or queries a ThreadSet changes no
\* thread's state and nothing of the manager (registry, join timeout, position
\* of __exit__); a step that changes a thread's state is no such step; the
\* thread __exit__ joins is taken from the registry, whatever the sets hold.
SetsDoNotOwn ==
    [][/\ (sets' # sets \/ cls' # cls \/ ret' # ret) =>
            /\ state' = state
            /\ registry' = registry
            /\ join_timeout' = join_timeout
            /\ held' = held
            /\ <<idx, pcExit, cur, joinArg>>' = <<idx, pcExit, cur, joinArg>>
       /\ (state' # state) => (sets' = sets /\ cls' = cls /\ ret' = ret)
       /\ (pcExit' = "join" /\ pcExit = "iter") =>
            /\ cur' \in Range(registry)
            /\ cur' = registry[idx']
      ]_vars

\* C17 witness: the scope has exited; a thread that is in the sets a, b and
\* a | b, but was not created through the manager, is still running.
SetsDoNotOwnWitness ==
    /\ pcMain = "exited"
    /\ \E h \in (sets["A"] \cap sets["B"]) \cap sets["U"] :
          h \notin Range(registry) /\ state[h] = "running"
    /\ ret.op \in {"or", "ior"}

\* ------------------------------------------------------------------------
\* Properties of the registry during and after __exit__
\* ------------------------------------------------------------------------
\* C18: __exit__ iterates the list itself. A handle that is registered while
\* __exit__ is in progress goes to the end of the list, behind the position of
\* the loop, and earlier entries stay where they are; the loop takes the
\* entries one by one in list order and joins the one it takes exactly when it
\* is alive at that moment; __exit__ returns only when the position of the
\* loop is the length of the list, so after every such handle was examined.
LateHandleExamined ==
    [][/\ (pcMain = "exit" /\ registry' # registry) =>
            /\ Len(registry') = Len(registry) + 1
            /\ SubSeq(registry', 1, Len(registry)) = registry
            /\ idx < Len(registry')
            /\ pcMain' = "exit"
       /\ (idx' # idx) =>
            /\ idx' = idx + 1
            /\ cur' = registry[idx']
            /\ (pcExit' = "join") <=> IsAlive(cur')
       /\ (pcMain = "exit" /\ pcMain' = "exited") => idx = Len(registry)
      ]_vars

\* C18 witness: __exit__ is waiting in the join of the last entry of the list,
\* a running worker, and that worker is inside tm(...): it has constructed a
\* Thread that it appends next.
LateHandleExaminedWitness ==
    /\ pcMain = "exit"
    /\ pcExit = "join"
    /\ idx = Len(registry)
    /\ IsAlive(cur)
    /\ fpc[cur] = "call"
    /\ fthread[cur] \notin Range(registry)

\* C19: the registry is append-only. Every step leaves the entries it held in
\* place (it adds at most one at the end) and leaves the join timeout as it
\* is; the registry holds every handle whose factory call has appended it; the
\* steps of __exit__ change neither; a with-statement on a manager that was
\* used before starts with all the handles of the earlier ones, and its
\* __exit__ returns only after its loop has been through all of them again.
RegistryAppendOnly ==
    [][/\ Len(registry') \in {Len(registry), Len(registry) + 1}
       /\ SubSeq(registry', 1, Len(registry)) = registry
       /\ join_timeout' = join_timeout
       /\ Range(registry') = {h \in Handles : state'[h] # "absent"}
                                \ {fthread'[c] : c \in {d \in Callers : fpc'[d] # "idle"}}
       /\ (pcMain = "exit" /\ <<idx, pcExit, pcMain>>' # <<idx, pcExit, pcMain>>) =>
            registry' = registry
       /\ (pcMain = "exited") => (registry' = registry /\ lenAtEnter' = Len(registry))
       /\ (pcMain = "exit" /\ pcMain' = "exited") =>
            (idx = Len(registry) /\ Len(registry) >= lenAtEnter)
      ]_vars

\* C19 witness: a with-statement that began with two handles of an earlier
\* one in the registry has added a third; its __exit__ has been through all
\* three and has returned.
RegistryAppendOnlyWitness ==
    /\ pcMain = "exited"
    /\ lenAtEnter >= 2
    /\ Len(registry) > lenAtEnter
    /\ idx = Len(registry)

\* ------------------------------------------------------------------------
\* Properties of the reader/writer protocol
\* ------------------------------------------------------------------------
\* C15: no thread is past b.wait() before all the readers and writers have
\* arrived at it; writers_done is set only when every writer has finished;
\* once writers_done is set every reader finishes; when the with-statement is
\* over no handle of the registry is alive.
ReaderWriterProtocol ==
    /\ []((\E h \in ProtoThreads : wpc[h] = "run") => barrier = ProtoThreads)
    /\ [](writers_done => \A w \in Writers : state[w] = "finished")
    /\ (writers_done ~> (\A r \in Readers : state[r] = "finished"))
    /\ [](pcMain = "exited" => \A h \in Range(registry) : ~IsAlive(h))

\* C15 witness: the with-statement of the protocol is over, all the readers
\* and writers went through the barrier and finished, writers_done is set.
ReaderWriterProtocolWitness ==
    /\ pcMain = "exited"
    /\ propagated = "none"
    /\ writers_done
    /\ Len(registry) = NWriters + NReaders
    /\ barrier = ProtoThreads
    /\ \A h \in ProtoThreads : state[h] = "finished" /\ wpc[h] = "run"
====
